---- MODULE Spec2Model ----
(***************************************************************************)
(* Model of torch/ao/quantization/fx/_model_report/                        *)
(* model_report_visualizer.py: class ModelReportVisualizer.                *)
(*                                                                         *)
(* Python strings are sequences of code points, so that `in` (substring)   *)
(* and sorted() (code point order) are computed and not assumed.           *)
(* A Python value is a record [kind, data]:                                *)
(*   "float"   a plain Python number         data = <<n>>                  *)
(*   "tensor0" a zero-dimensional Tensor     data = <<n>>                  *)
(*   "list"    a Python list of numbers      data = the elements           *)
(*   "tensor1" a one-dimensional Tensor      data = the elements           *)
(*   "int"     a Python int (table cells)    data = <<n>>                  *)
(*   "str"     a Python str (table cells)    data = the code points        *)
(* An OrderedDict / dict is a sequence of entries in insertion order.      *)
(***************************************************************************)
EXTENDS Integers, Sequences, FiniteSets

VARIABLES generated_reports, pc, op, args, outcome, ret

vars == <<generated_reports, pc, op, args, outcome, ret>>

-----------------------------------------------------------------------------
(* Bounds of the model *)

\* the longest per-channel sequence a feature value holds
MaxChannels == 2

\* the largest number of (module, feature) entries of a report
MaxEntries == 3

-----------------------------------------------------------------------------
(* Python values *)

Float(n) == [kind |-> "float", data |-> <<n>>]

Tensor0(n) == [kind |-> "tensor0", data |-> <<n>>]

PyList(s) == [kind |-> "list", data |-> s]

Tensor1(s) == [kind |-> "tensor1", data |-> s]

PyInt(n) == [kind |-> "int", data |-> <<n>>]

PyStr(s) == [kind |-> "str", data |-> s]

\* an exception raised in place of a value
Raise(e) == [kind |-> e, data |-> <<>>]

Errors == {"TypeError", "IndexError", "ValueError"}

IsRaise(v) == v.kind \in Errors

\* type(v) is torch.Tensor
IsTensor(v) == v.kind \in {"tensor0", "tensor1"}

\* iter(v) succeeds: lists and tensors of one dimension; iter() of a plain
\* number or of a zero-dimensional tensor raises TypeError
IsIterable(v) == v.kind \in {"list", "tensor1"}

\* v.item(): the plain number of a tensor of exactly one element, an error
\* for a tensor of any other number of elements (ValueError or
\* RuntimeError, by the version of torch; no claim tells them apart)
Item(v) ==
    IF Len(v.data) = 1 THEN Float(v.data[1]) ELSE Raise("ValueError")

\* GetItem reading past the end of a sequence without an error
GetItem_unchecked(v, i) ==
    CASE v.kind = "list" ->
           IF i < Len(v.data) THEN Float(v.data[i + 1]) ELSE PyStr(<<>>)
      [] v.kind = "tensor1" ->
           IF i < Len(v.data) THEN Tensor0(v.data[i + 1]) ELSE PyStr(<<>>)
      [] v.kind = "tensor0" -> Raise("IndexError")
      [] OTHER -> Raise("TypeError")

\* v[i] for a 0-based i >= 0: an element of a list, a zero-dimensional
\* tensor out of a one-dimensional one; a plain number is not
\* subscriptable and a zero-dimensional tensor cannot be indexed
GetItem(v, i) ==
    CASE v.kind = "list" ->
           IF i < Len(v.data) THEN Float(v.data[i + 1]) ELSE Raise("IndexError")
      [] v.kind = "tensor1" ->
           IF i < Len(v.data) THEN Tensor0(v.data[i + 1]) ELSE Raise("IndexError")
      [] v.kind = "tensor0" -> Raise("IndexError")
      [] OTHER -> Raise("TypeError")

-----------------------------------------------------------------------------
(* Python strings *)

\* s.startswith(sub) in place of sub in s
Contains_prefix(s, sub) ==
    Len(sub) <= Len(s) /\ SubSeq(s, 1, Len(sub)) = sub

\* sub in s
Contains(s, sub) ==
    \E i \in 0..(Len(s) - Len(sub)) : SubSeq(s, i + 1, i + Len(sub)) = sub

\* s < t in the order sorted() uses on str
StrLess(s, t) ==
    \E i \in 1..(Len(t)) :
        /\ \A j \in 1..(i - 1) : j <= Len(s) /\ s[j] = t[j]
        /\ \/ i = Len(s) + 1
           \/ i <= Len(s) /\ s[i] < t[i]

RECURSIVE sorted(_)
\* sorted(list(S)) for a set S of str
sorted(S) ==
    IF S = {} THEN <<>>
    ELSE LET least == CHOOSE x \in S : \A y \in S \ {x} : StrLess(x, y)
         IN  <<least>> \o sorted(S \ {least})

\* "idx"
IDX == <<105, 100, 120>>

\* "layer_fqn"
LAYER_FQN == <<108, 97, 121, 101, 114, 95, 102, 113, 110>>

\* "channel"
CHANNEL == <<99, 104, 97, 110, 110, 101, 108>>

\* "Not Applicable"
NOT_APPLICABLE == <<78, 111, 116, 32, 65, 112, 112, 108, 105, 99, 97, 98, 108, 101>>

TABLE_TENSOR_KEY == "tensor_level_info"

TABLE_CHANNEL_KEY == "channel_level_info"

NO_DATA == "No data points to generate table with."

-----------------------------------------------------------------------------
(* Dictionaries in insertion order *)

\* feature in fd
Has(fd, feature) == \E i \in 1..Len(fd) : fd[i].name = feature

\* fd[feature]
Get(fd, feature) == fd[CHOOSE i \in 1..Len(fd) : fd[i].name = feature].val

\* SelectEntries without the test on the feature name
SelectEntries_unfiltered(fd, feature_filter) == fd

RECURSIVE SelectEntries(_, _)
\* the entries of a feature dict whose name contains feature_filter
SelectEntries(fd, feature_filter) ==
    IF fd = <<>> THEN <<>>
    ELSE LET rest == SelectEntries(Tail(fd), feature_filter)
         IN  IF feature_filter = <<>> \/ Contains(Head(fd).name, feature_filter)
             THEN <<Head(fd)>> \o rest
             ELSE rest

RECURSIVE FilterModules(_, _, _)
FilterModules(reports, feature_filter, module_fqn_filter) ==
    IF reports = <<>> THEN <<>>
    ELSE LET rest == FilterModules(Tail(reports), feature_filter, module_fqn_filter)
             m == Head(reports)
         IN  IF module_fqn_filter = <<>> \/ Contains(m.fqn, module_fqn_filter)
             THEN <<[fqn |-> m.fqn,
                     features |-> SelectEntries(m.features, feature_filter)]>> \o rest
             ELSE rest

\* ModelReportVisualizer._get_filtered_data
_get_filtered_data(reports, feature_filter, module_fqn_filter) ==
    FilterModules(reports, feature_filter, module_fqn_filter)

\* ModelReportVisualizer.get_all_unique_module_fqns
get_all_unique_module_fqns(reports) ==
    {reports[i].fqn : i \in 1..Len(reports)}

\* get_all_unique_feature_names taking every sequence for a tensor
get_all_unique_feature_names_iterable(reports, plottable) ==
    UNION {{reports[i].features[j].name :
                j \in {k \in 1..Len(reports[i].features) :
                          plottable => (IsTensor(reports[i].features[k].val)
                                        \/ IsIterable(reports[i].features[k].val))}} :
             i \in 1..Len(reports)}

\* ModelReportVisualizer.get_all_unique_feature_names
get_all_unique_feature_names(reports, plottable) ==
    UNION {{reports[i].features[j].name :
                j \in {k \in 1..Len(reports[i].features) :
                          plottable => IsTensor(reports[i].features[k].val)}} :
             i \in 1..Len(reports)}

-----------------------------------------------------------------------------
(* generate_table_view *)

RECURSIVE AllEntries(_)
\* every (module, feature) occurrence of the filtered data, in the order
\* the nested loops visit them
AllEntries(filtered_data) ==
    IF filtered_data = <<>> THEN <<>>
    ELSE Head(filtered_data).features \o AllEntries(Tail(filtered_data))

\* tensor_features missing the zero-dimensional tensors
tensor_features_plain(filtered_data) ==
    LET es == AllEntries(filtered_data)
    IN  {es[i].name : i \in {k \in 1..Len(es) : es[k].val.kind = "float"}}

tensor_features(filtered_data) ==
    LET es == AllEntries(filtered_data)
    IN  {es[i].name : i \in {k \in 1..Len(es) : ~IsIterable(es[k].val)}}

channel_features(filtered_data) ==
    LET es == AllEntries(filtered_data)
    IN  {es[i].name : i \in {k \in 1..Len(es) : IsIterable(es[k].val)}}

\* num_channels kept from the first iterable value visited
num_channels_first(filtered_data) ==
    LET es == AllEntries(filtered_data)
        it == {k \in 1..Len(es) : IsIterable(es[k].val)}
    IN  IF it = {} THEN 0
        ELSE Len(es[CHOOSE k \in it : \A l \in it : k <= l].val.data)

\* num_channels after the classification loop: the len() of the last
\* iterable value visited, 0 when none was
num_channels(filtered_data) ==
    LET es == AllEntries(filtered_data)
        it == {k \in 1..Len(es) : IsIterable(es[k].val)}
    IN  IF it = {} THEN 0
        ELSE Len(es[CHOOSE k \in it : \A l \in it : l <= k].val.data)

\* TensorCell without the call of item()
TensorCell_no_item(fd, feature) ==
    IF Has(fd, feature) THEN Get(fd, feature) ELSE PyStr(NOT_APPLICABLE)

\* the cell of one tensor feature of one module
TensorCell(fd, feature) ==
    LET feature_val == IF Has(fd, feature) THEN Get(fd, feature)
                       ELSE PyStr(NOT_APPLICABLE)
    IN  IF IsTensor(feature_val) THEN Item(feature_val) ELSE feature_val

\* the cell of one channel feature of one module at one channel
ChannelCell(fd, feature, channel) ==
    LET feature_val == IF Has(fd, feature) THEN GetItem(Get(fd, feature), channel)
                       ELSE PyStr(NOT_APPLICABLE)
    IN  IF IsTensor(feature_val) THEN Item(feature_val) ELSE feature_val

tensor_table(filtered_data) ==
    LET tensor_features_list == sorted(tensor_features(filtered_data))
        tensor_headers == <<PyStr(IDX), PyStr(LAYER_FQN)>>
            \o [c \in 1..Len(tensor_features_list) |-> PyStr(tensor_features_list[c])]
    IN  <<tensor_headers>> \o
        [index \in 1..Len(filtered_data) |->
            <<PyInt(index), PyStr(filtered_data[index].fqn)>> \o
            [c \in 1..Len(tensor_features_list) |->
                TensorCell(filtered_data[index].features, tensor_features_list[c])]]

\* channel_table with the entry counter started again for every module
channel_table_counter_reset(filtered_data) ==
    LET channel_features_list == sorted(channel_features(filtered_data))
        n == num_channels(filtered_data)
        channel_headers == <<PyStr(IDX), PyStr(LAYER_FQN), PyStr(CHANNEL)>>
            \o [c \in 1..Len(channel_features_list) |-> PyStr(channel_features_list[c])]
    IN  <<channel_headers>> \o
        [channel_table_entry_counter \in 1..(Len(filtered_data) * n) |->
            LET index == ((channel_table_entry_counter - 1) \div n) + 1
                channel == (channel_table_entry_counter - 1) % n
            IN  <<PyInt(channel + 1),
                  PyStr(filtered_data[index].fqn), PyInt(channel)>> \o
                [c \in 1..Len(channel_features_list) |->
                    ChannelCell(filtered_data[index].features,
                                channel_features_list[c], channel)]]

\* the rows are built module by module and, inside a module, channel by
\* channel: row number channel_table_entry_counter is that of module
\* (counter - 1) div num_channels and of channel (counter - 1) mod num_channels
channel_table(filtered_data) ==
    LET channel_features_list == sorted(channel_features(filtered_data))
        n == num_channels(filtered_data)
        channel_headers == <<PyStr(IDX), PyStr(LAYER_FQN), PyStr(CHANNEL)>>
            \o [c \in 1..Len(channel_features_list) |-> PyStr(channel_features_list[c])]
    IN  <<channel_headers>> \o
        [channel_table_entry_counter \in 1..(Len(filtered_data) * n) |->
            LET index == ((channel_table_entry_counter - 1) \div n) + 1
                channel == (channel_table_entry_counter - 1) % n
            IN  <<PyInt(channel_table_entry_counter),
                  PyStr(filtered_data[index].fqn), PyInt(channel)>> \o
                [c \in 1..Len(channel_features_list) |->
                    ChannelCell(filtered_data[index].features,
                                channel_features_list[c], channel)]]

RECURSIVE Flatten(_)
\* the cells of a table in the order they are computed
Flatten(table) ==
    IF table = <<>> THEN <<>> ELSE Head(table) \o Flatten(Tail(table))

\* the first exception raised while the cells of the two tables are
\* computed (the tensor table first), "none" when none is
FirstError(tables) ==
    LET cells == Flatten(tables)
        bad == {k \in 1..Len(cells) : IsRaise(cells[k])}
    IN  IF bad = {} THEN "none"
        ELSE cells[CHOOSE k \in bad : \A l \in bad : k <= l].kind

\* tabulate(table, headers="firstrow"), of the external package tabulate:
\* a text that is a function of the table
tabulate(which) == "tabulate(" \o which \o ")"

\* table_str giving the message as soon as there is no tensor feature
table_str_tensor_only(filtered_data) ==
    IF tensor_features(filtered_data) = {} THEN <<NO_DATA>>
    ELSE <<"Tensor Level Information \n", tabulate(TABLE_TENSOR_KEY)>>

\* the pieces concatenated into table_str
table_str(filtered_data) ==
    LET head == IF tensor_features(filtered_data) # {}
                THEN <<"Tensor Level Information \n", tabulate(TABLE_TENSOR_KEY)>>
                ELSE <<>>
        both == IF channel_features(filtered_data) # {}
                THEN head \o <<"\n\n Channel Level Information \n",
                               tabulate(TABLE_CHANNEL_KEY)>>
                ELSE head
    IN  IF both = <<>> THEN <<NO_DATA>> ELSE both

\* ModelReportVisualizer.generate_table_view: the exception raised ("none"
\* when none is) and the pair (table_dict, table_str) returned
generate_table_view(reports, feature_filter, module_fqn_filter) ==
    LET filtered_data == _get_filtered_data(reports, feature_filter, module_fqn_filter)
        tt == tensor_table(filtered_data)
        ct == channel_table(filtered_data)
        error == FirstError(tt \o ct)
    IN  IF error # "none"
        THEN [error |-> error, value |-> "None"]
        ELSE [error |-> "none",
              value |-> [table_dict |-> [tensor_level_info |-> tt,
                                         channel_level_info |-> ct],
                         table_str |-> table_str(filtered_data)]]

-----------------------------------------------------------------------------
(* The reports a visualizer is constructed with *)

\* "a", "ab"
FeatureNames == {<<97>>, <<97, 98>>}

\* "a", "ab"
ModuleFqns == {<<97>>, <<97, 98>>}

\* "", "b", "ba": no filter, part of one name, part of no name
Filters == {<<>>, <<98>>, <<98, 97>>}

\* the values of a feature: a plain number, a zero-dimensional tensor, a
\* plain list (empty, or of MaxChannels numbers) and a one-dimensional
\* tensor of each length up to MaxChannels
Values ==
    {Float(5), Tensor0(7)}
    \cup {PyList([i \in 1..n |-> i]) : n \in {0, MaxChannels}}
    \cup {Tensor1([i \in 1..n |-> 10 + i]) : n \in 1..MaxChannels}

\* a dict holds a key once
UniqueNames(fd) ==
    \A i, j \in 1..Len(fd) : i # j => fd[i].name # fd[j].name

UniqueFqns(r) ==
    \A i, j \in 1..Len(r) : i # j => r[i].fqn # r[j].fqn

\* the feature dicts of a module: any features, in any insertion order
FeatureDicts ==
    UNION {{fd \in [1..n -> [name : FeatureNames, val : Values]] : UniqueNames(fd)} :
             n \in 0..Cardinality(FeatureNames)}

\* the OrderedDicts a visualizer is constructed with: any modules, in any
\* order, a module without features included
Reports ==
    UNION {{r \in [1..n -> [fqn : ModuleFqns, features : FeatureDicts]] :
                /\ UniqueFqns(r)
                /\ Len(AllEntries(r)) <= MaxEntries} :
             n \in 0..Cardinality(ModuleFqns)}

NoArgs == [feature_filter |-> <<>>, module_fqn_filter |-> <<>>]

-----------------------------------------------------------------------------
(* The visualizer and its caller *)

\* __init__: the reports are stored; nothing has been called yet
Init ==
    /\ generated_reports \in Reports
    /\ pc = "ready"
    /\ op = "__init__"
    /\ args = NoArgs
    /\ outcome = "none"
    /\ ret = "none"

Returns(name, a, value) ==
    /\ pc = "ready"
    /\ pc' = "done"
    /\ op' = name
    /\ args' = a
    /\ outcome' = "return"
    /\ ret' = value
    /\ UNCHANGED generated_reports

Raises(name, a, error) ==
    /\ pc = "ready"
    /\ pc' = "done"
    /\ op' = name
    /\ args' = a
    /\ outcome' = "raise"
    /\ ret' = error
    /\ UNCHANGED generated_reports

GetAllUniqueModuleFqns ==
    Returns("get_all_unique_module_fqns", NoArgs,
            get_all_unique_module_fqns(generated_reports))

GetAllUniqueFeatureNames ==
    \E plottable \in BOOLEAN :
        Returns("get_all_unique_feature_names", [plottable |-> plottable],
                get_all_unique_feature_names(generated_reports, plottable))

GetFilteredData ==
    \E f \in Filters, m \in Filters :
        Returns("_get_filtered_data",
                [feature_filter |-> f, module_fqn_filter |-> m],
                _get_filtered_data(generated_reports, f, m))

\* a call ends with the value returned or with the exception raised
Ends(name, a, r) ==
    IF r.error = "none" THEN Returns(name, a, r.value) ELSE Raises(name, a, r.error)

GenerateTableView ==
    /\ pc = "ready"
    /\ \E f \in Filters, m \in Filters :
        Ends("generate_table_view",
             [feature_filter |-> f, module_fqn_filter |-> m],
             generate_table_view(generated_reports, f, m))

\* generate_plot_view as a stub that raises
generate_plot_view_raises(reports, feature, module_fqn_prefix_filter) ==
    [error |-> "NotImplementedError", value |-> "None"]

\* the body of generate_plot_view is `pass`: it returns None
generate_plot_view(reports, feature, module_fqn_prefix_filter) ==
    [error |-> "none", value |-> "None"]

\* the body of generate_histogram_view is `pass`: it returns None
generate_histogram_view(reports, feature, module_fqn_prefix_filter) ==
    [error |-> "none", value |-> "None"]

GeneratePlotView ==
    \E feature \in FeatureNames, m \in Filters :
        Ends("generate_plot_view",
             [feature |-> feature, module_fqn_prefix_filter |-> m],
             generate_plot_view(generated_reports, feature, m))

GenerateHistogramView ==
    \E feature \in FeatureNames, m \in Filters :
        Ends("generate_histogram_view",
             [feature |-> feature, module_fqn_prefix_filter |-> m],
             generate_histogram_view(generated_reports, feature, m))

\* the caller takes the result (or the exception) and is ready to call again
Resume ==
    /\ pc = "done"
    /\ pc' = "ready"
    /\ op' = "__init__"
    /\ args' = NoArgs
    /\ outcome' = "none"
    /\ ret' = "none"
    /\ UNCHANGED generated_reports

Next ==
    \/ GetAllUniqueModuleFqns
    \/ GetAllUniqueFeatureNames
    \/ GetFilteredData
    \/ GenerateTableView
    \/ GeneratePlotView
    \/ GenerateHistogramView
    \/ Resume

Spec == Init /\ [][Next]_vars

-----------------------------------------------------------------------------
(* What a call is expected to do, stated on the reports the visualizer was *)
(* constructed with and on the arguments of the call                       *)

\* sub occurs in s at some position
IsSubstring(sub, s) ==
    \E i \in 0..Len(s), j \in 0..Len(s) : i <= j /\ SubSeq(s, i + 1, j) = sub

\* a filter keeps s: the empty filter keeps everything
Keeps(flt, s) == flt = <<>> \/ IsSubstring(flt, s)

TableViewCalled == pc = "done" /\ op = "generate_table_view"

TableViewReturned == TableViewCalled /\ outcome = "return"

FilterCalled == pc = "done" /\ op = "_get_filtered_data"

\* the positions in the report of the modules the module filter keeps
KeptModules ==
    {i \in 1..Len(generated_reports) :
        Keeps(args.module_fqn_filter, generated_reports[i].fqn)}

\* the position in the report of the k-th kept module
KthKept(k) ==
    CHOOSE i \in KeptModules : Cardinality({j \in KeptModules : j < i}) = k - 1

\* the (module, feature) positions both filters keep
KeptOccurrences ==
    UNION {{<<i, j>> : j \in {k \in 1..Len(generated_reports[i].features) :
                Keeps(args.feature_filter, generated_reports[i].features[k].name)}} :
             i \in KeptModules}

EntryAt(p) == generated_reports[p[1]].features[p[2]]

IsSequence(v) == v.kind = "list" \/ v.kind = "tensor1"

SequenceOccurrences == {p \in KeptOccurrences : IsSequence(EntryAt(p).val)}

ScalarOccurrences == KeptOccurrences \ SequenceOccurrences

\* p is visited before q when the modules are scanned in order
VisitedBefore(p, q) == p[1] < q[1] \/ (p[1] = q[1] /\ p[2] < q[2])

\* the length of the last channel-feature value seen, 0 when none was seen
NumChannelsSeen ==
    IF SequenceOccurrences = {} THEN 0
    ELSE LET last == CHOOSE p \in SequenceOccurrences :
                        \A q \in SequenceOccurrences : q = p \/ VisitedBefore(q, p)
         IN  Len(EntryAt(last).val.data)

TensorTable == ret.table_dict.tensor_level_info

ChannelTable == ret.table_dict.channel_level_info

\* the feature names in the header of a table, after its fixed columns
FeatureColumns(table, fixed) ==
    [c \in 1..(Len(table[1]) - fixed) |-> table[1][fixed + c].data]

ColumnSet(table, fixed) ==
    {table[1][c].data : c \in (fixed + 1)..Len(table[1])}

StrictlyAscending(names) ==
    \A c \in 1..(Len(names) - 1) : StrLess(names[c], names[c + 1])

\* the plain number a scalar value shows as
Plain(v) == [kind |-> "float", data |-> v.data]

\* the places of a name in the features of module i
PlacesOf(i, name) ==
    {j \in 1..Len(generated_reports[i].features) :
        generated_reports[i].features[j].name = name}

\* the value module i holds under a name it has
ValueOf(i, name) ==
    generated_reports[i].features[CHOOSE j \in PlacesOf(i, name) : TRUE].val

NotApplicable == [kind |-> "str", data |-> NOT_APPLICABLE]

-----------------------------------------------------------------------------
\* C1: whenever generate_table_view returns, the tensor table has 1 + M rows
\* and the channel table 1 + M * num_channels rows, M being the number of
\* modules the module filter keeps (whatever features matched) and
\* num_channels the length of the last channel-feature value seen (0 if none).
C1_RowCounts ==
    TableViewReturned =>
        /\ Len(TensorTable) = 1 + Cardinality(KeptModules)
        /\ Len(ChannelTable) = 1 + Cardinality(KeptModules) * NumChannelsSeen

\* the case of C1: two modules kept, with fewer matching features than the
\* report holds, and channel rows emitted for a sequence of two elements
\* that is not the first sequence seen
C1_Witness ==
    /\ TableViewReturned
    /\ Cardinality(KeptModules) = 2
    /\ NumChannelsSeen = 2
    /\ Cardinality(SequenceOccurrences) = 2
    /\ Len(ChannelTable) = 5

C3_ChannelTable ==
    TableViewReturned =>
        LET names == FeatureColumns(ChannelTable, 3)
            nc == NumChannelsSeen
        IN  /\ ChannelTable[1][1] = [kind |-> "str", data |-> IDX]
            /\ ChannelTable[1][2] = [kind |-> "str", data |-> LAYER_FQN]
            /\ ChannelTable[1][3] = [kind |-> "str", data |-> CHANNEL]
            /\ StrictlyAscending(names)
            /\ ColumnSet(ChannelTable, 3) = {EntryAt(p).name : p \in SequenceOccurrences}
            /\ \A k \in 1..Cardinality(KeptModules), channel \in 0..(nc - 1) :
                 LET n == (k - 1) * nc + channel + 1
                     row == ChannelTable[n + 1]
                     i == KthKept(k)
                 IN  /\ Len(row) = 3 + Len(names)
                     /\ row[1] = [kind |-> "int", data |-> <<n>>]
                     /\ row[2] = [kind |-> "str", data |-> generated_reports[i].fqn]
                     /\ row[3] = [kind |-> "int", data |-> <<channel>>]
                     /\ \A c \in 1..Len(names) :
                          IF PlacesOf(i, names[c]) = {}
                          THEN row[3 + c] = NotApplicable
                          ELSE /\ IsSequence(ValueOf(i, names[c]))
                               /\ channel < Len(ValueOf(i, names[c]).data)
                               /\ row[3 + c] =
                                    [kind |-> "float",
                                     data |-> <<ValueOf(i, names[c]).data[channel + 1]>>]

\* the case of C3: two modules of two channels each, one of them without
\* the channel feature, so that idx runs to 4 across the modules
C3_Witness ==
    /\ TableViewReturned
    /\ Cardinality(KeptModules) = 2
    /\ NumChannelsSeen = 2
    /\ Len(ChannelTable) = 5
    /\ Len(ChannelTable[1]) = 4
    /\ ChannelTable[2][4] = NotApplicable
    /\ ChannelTable[5][4].kind = "float"
    /\ ChannelTable[5][1] = [kind |-> "int", data |-> <<4>>]

\* the entries of a feature dict as a set of (name, value) pairs
EntrySet(fd) == {<<fd[j].name, fd[j].val>> : j \in 1..Len(fd)}

MatchesNothing == KeptOccurrences = {}

\* C5: the formatted string generate_table_view returns is exactly
\* "No data points to generate table with." iff the tensor feature list and
\* the channel feature list are both empty; filters that match nothing
\* give this message and a table bundle, never an error.
C5_NoDataMessage ==
    TableViewCalled =>
        /\ outcome = "return" =>
             (ret.table_str = <<NO_DATA>>
                <=> (Len(TensorTable[1]) = 2 /\ Len(ChannelTable[1]) = 3))
        /\ MatchesNothing =>
             /\ outcome = "return"
             /\ ret.table_str = <<NO_DATA>>
             /\ Len(TensorTable) = 1 + Cardinality(KeptModules)
             /\ Len(ChannelTable) = 1

\* the case of C5: a report with features, none of which the feature filter
\* keeps, in modules the module filter keeps
C5_Witness ==
    /\ TableViewReturned
    /\ args.feature_filter # <<>>
    /\ Cardinality(KeptModules) = 2
    /\ \E i \in KeptModules : generated_reports[i].features # <<>>
    /\ MatchesNothing
    /\ ret.table_str = <<NO_DATA>>

PlotOrHistogramCalled ==
    pc = "done" /\ op \in {"generate_plot_view", "generate_histogram_view"}

Occurrences ==
    UNION {{<<i, j>> : j \in 1..Len(generated_reports[i].features)} :
             i \in 1..Len(generated_reports)}

FeatureNamesCalled == pc = "done" /\ op = "get_all_unique_feature_names"

\* C7: get_all_unique_feature_names(False) returns the union of the feature
\* names of all modules; (True) returns exactly the names whose value is a
\* tensor (scalar or sequence) in at least one module.
C7_FeatureNames ==
    FeatureNamesCalled =>
        IF args.plottable
        THEN ret = {EntryAt(p).name :
                      p \in {q \in Occurrences :
                               EntryAt(q).val.kind \in {"tensor0", "tensor1"}}}
        ELSE ret = {EntryAt(p).name : p \in Occurrences}

\* the case of C7: plottable asked of a report holding a tensor feature and
\* a feature whose only value is a plain list
C7_Witness ==
    /\ FeatureNamesCalled
    /\ args.plottable
    /\ Cardinality(ret) = 1
    /\ \E p \in Occurrences :
         EntryAt(p).val.kind = "list" /\ EntryAt(p).name \notin ret

\* the cells of the feature columns of the data rows of a table
FeatureCells(table, fixed) ==
    {<<r, c>> \in (2..Len(table)) \X ((fixed + 1)..Len(table[1])) : TRUE}

\* the numbers the features of module i hold that the feature filter keeps
KeptNumbers(i) ==
    UNION {{EntryAt(p).val.data[e] : e \in 1..Len(EntryAt(p).val.data)} :
             p \in {q \in KeptOccurrences : q[1] = i}}

\* the numbers a cell shows (none for "Not Applicable")
CellNumbers(cell) ==
    IF cell.kind = "str" THEN {} ELSE {cell.data[e] : e \in 1..Len(cell.data)}

\* the position in the report of the module of an identifier
ModuleNamed(fqn) ==
    CHOOSE i \in 1..Len(generated_reports) : generated_reports[i].fqn = fqn

\* C8: when generate_table_view(f, m) returns, every feature column name of
\* both headers contains f, every layer_fqn cell of both tables contains m,
\* and every feature cell shows "Not Applicable" or numbers of features of
\* its module whose name contains f.
C8_OnlyFiltered ==
    TableViewReturned =>
        /\ \A name \in ColumnSet(TensorTable, 2) \cup ColumnSet(ChannelTable, 3) :
             Keeps(args.feature_filter, name)
        /\ \A r \in 2..Len(TensorTable) :
             Keeps(args.module_fqn_filter, TensorTable[r][2].data)
        /\ \A r \in 2..Len(ChannelTable) :
             Keeps(args.module_fqn_filter, ChannelTable[r][2].data)
        /\ \A rc \in FeatureCells(TensorTable, 2) :
             LET row == TensorTable[rc[1]]
             IN  \/ row[rc[2]] = NotApplicable
                 \/ CellNumbers(row[rc[2]]) \subseteq KeptNumbers(ModuleNamed(row[2].data))
        /\ \A rc \in FeatureCells(ChannelTable, 3) :
             LET row == ChannelTable[rc[1]]
             IN  \/ row[rc[2]] = NotApplicable
                 \/ CellNumbers(row[rc[2]]) \subseteq KeptNumbers(ModuleNamed(row[2].data))

\* the case of C8: both filters given, a kept module holding a feature the
\* feature filter drops and one it keeps, which is shown
C8_Witness ==
    /\ TableViewReturned
    /\ args.feature_filter # <<>>
    /\ args.module_fqn_filter # <<>>
    /\ Len(generated_reports) = 2
    /\ Cardinality(KeptModules) = 1
    /\ Len(generated_reports[KthKept(1)].features) = 2
    /\ Cardinality(KeptOccurrences) = 1
    /\ Len(TensorTable[1]) = 3
    /\ TensorTable[2][3].kind = "float"

\* the feature names found in the filtered modules
FoundNames == {EntryAt(p).name : p \in KeptOccurrences}

\* a name whose value is a sequence in one filtered module and a scalar in
\* another
Mixed(name) ==
    /\ \E p \in SequenceOccurrences : EntryAt(p).name = name
    /\ \E p \in ScalarOccurrences : EntryAt(p).name = name

\* C9 as claimed: every feature name found in the filtered modules is a
\* column of the tensor table or of the channel table, and none is a column
\* of both.
C9_ExactlyOneTable ==
    TableViewReturned =>
        /\ FoundNames \subseteq ColumnSet(TensorTable, 2) \cup ColumnSet(ChannelTable, 3)
        /\ ColumnSet(TensorTable, 2) \cap ColumnSet(ChannelTable, 3) = {}

\* C9 as amended: every feature name found in the filtered modules is a
\* column of the tensor table or of the channel table, no other name is, and
\* a name is a column of both exactly when its value is a sequence in one
\* filtered module and a scalar in another.
C9_AtLeastOneTable ==
    TableViewReturned =>
        /\ FoundNames = ColumnSet(TensorTable, 2) \cup ColumnSet(ChannelTable, 3)
        /\ \A name \in FoundNames :
             (name \in ColumnSet(TensorTable, 2) /\ name \in ColumnSet(ChannelTable, 3))
                <=> Mixed(name)

\* the case of C9: a table returned with a tensor column and a channel
\* column, one name being a column of both
C9_Witness ==
    /\ TableViewReturned
    /\ \E name \in FoundNames :
         /\ Mixed(name)
         /\ name \in ColumnSet(TensorTable, 2)
         /\ name \in ColumnSet(ChannelTable, 3)
    /\ \E name \in FoundNames : ~Mixed(name)

\* some filtered module holds a channel-feature sequence shorter than
\* num_channels
ShortSequence ==
    \E p \in SequenceOccurrences : Len(EntryAt(p).val.data) < NumChannelsSeen

\* every channel-feature sequence of every filtered module has at least
\* num_channels elements
NoShortSequence ==
    \A p \in SequenceOccurrences : Len(EntryAt(p).val.data) >= NumChannelsSeen

\* the names classified as channel features
ChannelNames == {EntryAt(p).name : p \in SequenceOccurrences}

\* no channel row goes beyond num_channels
NothingBeyondNumChannels ==
    /\ Len(ChannelTable) = 1 + Cardinality(KeptModules) * NumChannelsSeen
    /\ \A r \in 2..Len(ChannelTable) : ChannelTable[r][3].data[1] < NumChannelsSeen

\* C10 as claimed: a channel-feature sequence shorter than num_channels
\* makes generate_table_view fail with an index error and return no table;
\* when every channel-feature sequence has at least num_channels elements,
\* no index error occurs and the elements from num_channels on are left out.
C10_IndexErrorIffShort ==
    TableViewCalled =>
        /\ ShortSequence => (outcome = "raise" /\ ret = "IndexError")
        /\ NoShortSequence =>
             /\ ~(outcome = "raise" /\ ret = "IndexError")
             /\ outcome = "return" => NothingBeyondNumChannels

\* C10 as amended: a channel-feature sequence shorter than num_channels
\* makes generate_table_view fail and return no table, with an index error
\* when no feature name has a sequence in one filtered module and a scalar
\* in another; when every value of every channel feature in the filtered
\* modules is a sequence of at least num_channels elements, the call
\* returns and the elements from num_channels on are left out.
C10_ShortSequenceFails ==
    TableViewCalled =>
        /\ ShortSequence => outcome = "raise"
        /\ (ShortSequence /\ \A name \in FoundNames : ~Mixed(name))
             => (outcome = "raise" /\ ret = "IndexError")
        /\ (NoShortSequence /\ \A name \in ChannelNames : ~Mixed(name))
             => (outcome = "return" /\ NothingBeyondNumChannels)

\* the case of C10: two sequences of different lengths, the shorter one read
\* past its end
C10_Witness ==
    /\ TableViewCalled
    /\ ShortSequence
    /\ \A name \in FoundNames : ~Mixed(name)
    /\ NumChannelsSeen = 2
    /\ outcome = "raise"
    /\ ret = "IndexError"

====
